---- MODULE Spec2Model ----
(***************************************************************************)
(* Symbolic statement evaluator of deal-solver (deal_solver/_eval_stmt.py) *)
(* and the random built-ins (deal_solver/_funcs/_random.py).               *)
(*                                                                         *)
(* Solver terms and syntax nodes are tagged tuples: the first component is *)
(* the tag, and two tuples with the same tag have the same shape.          *)
(***************************************************************************)
EXTENDS Integers, Sequences, FiniteSets, TLC

\* ------------------------------------------------------------------ bounds
\* statements evaluated in one function body
MaxStmts == 4
\* nesting depth of conditionals
MaxDepth == 2
\* fresh random symbols
MaxFresh == 1
\* largest value an integer symbol is interpreted as
IntHi == 3
\* raise statements in a body of raises
MaxRaises == 2
\* eval_func calls in progress
MaxCalls == 5

\* ------------------------------------------------------------ solver terms
BoolVal(b) == <<"bool", b>>
IntVal(n) == <<"int", n>>
BoolSym(s) == <<"sym", s>>
IntSym(k) == <<"isym", k>>
\* a float constant and a float symbol; floats are sampled at the integers
FloatVal(n) == <<"float", n>>
FloatSym(k) == <<"fsym", k>>
\* a list proxy holding its elements, and the proxy methods the handlers use
ListVal(es) == <<"list", es>>
MLen(seq) == <<"len", seq>>
MSub(a, b) == <<"sub", a, b>>
MGetItem(seq, index) == <<"getitem", seq, index>>
\* a value that is no proxy: a reference to a function definition
FuncRef(name) == <<"func", name>>
\* isinstance(v, ProxySort): neither None nor a function reference is a proxy
IsProxy(v) == v[1] \notin {"func", "none"}
True == BoolVal(TRUE)
False == BoolVal(FALSE)
Not(e) == <<"not", e>>
Or(es) == <<"or", es>>
And(es) == <<"and", es>>
If(c, a, b) == <<"if", c, a, b>>
NoVal == <<"none">>

\* the variant of a value: the sort of its payload
RECURSIVE Variant(_)
Variant(v) ==
  CASE v[1] \in {"bool", "sym", "not", "or", "and", "eq", "ge", "le", "lt"} -> "Bool"
    [] v[1] \in {"int", "isym", "sub", "len", "app"} -> "Int"
    [] v[1] \in {"float", "fsym"} -> "Float"
    [] v[1] = "list" -> "List"
    [] v[1] = "if" -> Variant(v[3])
    [] v[1] = "getitem" -> IF v[2][2] = <<>> THEN "Int" ELSE Variant(v[2][2][1])
    [] OTHER -> v[1]

\* what stands for the error if_expr fails with
Mismatch == <<"mismatch">>

\* if_expr(test, a, b) of _proxies: the solver conditional of the payloads of
\* two values of the same variant; values of different variants are an error
IfExpr(c, a, b) == IF Variant(a) = Variant(b) THEN If(c, a, b) ELSE Mismatch

BoolSyms == {"p", "q"}
Vars == {"p", "q", "y", "z"}

\* the interpretations of the boolean arguments and of k random symbols
Envs(k) == [b : [BoolSyms -> BOOLEAN], i : [1..k -> 0..IntHi]]

\* the value of a term under an interpretation of its symbols
RECURSIVE Eval(_, _)
Eval(e, env) ==
  CASE e[1] = "bool" -> e[2]
    [] e[1] = "int" -> e[2]
    [] e[1] = "sym" -> env.b[e[2]]
    [] e[1] = "isym" -> env.i[e[2]]
    [] e[1] = "not" -> ~Eval(e[2], env)
    [] e[1] = "or" -> \E k \in 1..Len(e[2]) : Eval(e[2][k], env)
    [] e[1] = "and" -> \A k \in 1..Len(e[2]) : Eval(e[2][k], env)
    [] e[1] = "if" -> IF Eval(e[2], env) THEN Eval(e[3], env) ELSE Eval(e[4], env)
    [] e[1] = "eq" -> Eval(e[2], env) = Eval(e[3], env)
    [] e[1] = "ge" -> Eval(e[2], env) >= Eval(e[3], env)
    [] e[1] = "le" -> Eval(e[2], env) <= Eval(e[3], env)
    [] e[1] = "lt" -> Eval(e[2], env) < Eval(e[3], env)
    [] e[1] = "float" -> e[2]
    [] e[1] = "fsym" -> env.i[e[2]]
    [] e[1] = "sub" -> Eval(e[2], env) - Eval(e[3], env)
    [] e[1] = "len" -> Len(e[2][2])
    [] e[1] = "getitem" ->
         LET i == Eval(e[3], env) + 1
         IN  IF i \in 1..Len(e[2][2]) THEN Eval(e[2][2][i], env) ELSE 0

\* ---------------------------------------------------------------- Context
\* one layer of each register of a Context
EmptyLayer ==
  [scope |-> [v \in Vars |-> NoVal], order |-> <<>>, given |-> <<>>, expected |-> <<>>,
   exceptions |-> <<>>, returns |-> <<>>]

\* the root Context of a function f(p: bool, q: bool)
RootLayer ==
  [EmptyLayer EXCEPT !.scope = [v \in Vars |->
      IF v \in BoolSyms THEN BoolSym(v) ELSE NoVal],
                     !.order = <<"p", "q">>]

\* Context.make_child: one fresh layer of every register on top of the chain
MakeChild(stack) == Append(stack, EmptyLayer)

Top(stack) == stack[Len(stack)]
Front(stack) == SubSeq(stack, 1, Len(stack) - 1)
SetTop(stack, layer) == [stack EXCEPT ![Len(stack)] = layer]

\* scope.get: the top layer first, then the parent layers
RECURSIVE ScopeGet(_, _)
ScopeGet(stack, name) ==
  IF stack = <<>> THEN NoVal
  ELSE IF Top(stack).scope[name] # NoVal THEN Top(stack).scope[name]
  ELSE ScopeGet(Front(stack), name)

\* the names of a layer, in the order they were first set
InOrder(order, name) == \E k \in 1..Len(order) : order[k] = name

\* scope.set: declare or overwrite in the top layer; the layer is a mapping, so
\* a new name goes last and an overwritten name keeps its place
ScopeSet(stack, name, value) ==
  SetTop(stack, [Top(stack) EXCEPT !.scope[name] = value,
                                   !.order = IF InOrder(@, name) THEN @ ELSE Append(@, name)])

\* iteration over a register: the parent layers, then the top layer
RECURSIVE AllOf(_, _)
AllOf(stack, reg) ==
  IF stack = <<>> THEN <<>>
  ELSE AllOf(Front(stack), reg) \o Top(stack)[reg]

Conds(items) == [k \in 1..Len(items) |-> items[k].cond]

\* Context.interrupted: an exception or a return already happened
Interrupted(stack) ==
  Or(<<False>> \o Conds(AllOf(stack, "exceptions")) \o Conds(AllOf(stack, "returns")))

\* ------------------------------------------------------------ syntax nodes
\* expressions: <<"Num", n>>, <<"Bool", b>>, <<"Name", id>>,
\*   <<"Compare", op, left, right>>, <<"BoolOp", op, left, right>>,
\*   <<"Call", qualified name, a, b>> (NoneNode for an argument not given),
\*   <<"List", elts>>, <<"FuncRef", name>>
\* statements: <<"Assert", test>>, <<"Assign", targets, value>>,
\*   <<"Return", value>>, <<"Raise", exc, cause>>, <<"Expr", value>>,
\*   <<"If", test, body, orelse>>, <<"FunctionDef", name, returns>>
NoneNode == <<"NoneNode">>
Num(n) == <<"Num", n>>
Name(id) == <<"Name", id>>

RECURSIVE NamesOf(_)
NamesOf(node) ==
  CASE node[1] = "Name" -> {node[2]}
    [] node[1] \in {"Compare", "BoolOp", "Call"} -> NamesOf(node[3]) \cup NamesOf(node[4])
    [] node[1] = "List" -> UNION { NamesOf(node[2][k]) : k \in 1..Len(node[2]) }
    [] OTHER -> {}

\* eval_expr on literals, names, comparisons and boolean operators
RECURSIVE ExprValue(_, _)
ExprValue(node, stack) ==
  CASE node[1] = "Num" -> IntVal(node[2])
    [] node[1] = "Bool" -> BoolVal(node[2])
    [] node[1] = "Name" -> ScopeGet(stack, node[2])
    [] node[1] = "Compare" ->
         <<node[2], ExprValue(node[3], stack), ExprValue(node[4], stack)>>
    [] node[1] = "BoolOp" ->
         <<node[2], <<ExprValue(node[3], stack), ExprValue(node[4], stack)>>>>
    [] node[1] = "List" ->
         ListVal([k \in 1..Len(node[2]) |-> ExprValue(node[2][k], stack)])
    [] node[1] = "FuncRef" -> FuncRef(node[2])

\* ctx.given.add: append to the top layer of given
GivenAdd(stack, c) == SetTop(stack, [Top(stack) EXCEPT !.given = Append(@, c)])

\* random.Random.randint(a, b): a fresh integer within [a, b]
RandomRandint(a, b, stack, k) ==
  LET result == IntSym(k)
  IN  [value |-> result,
       stack |-> GivenAdd(GivenAdd(stack, <<"ge", result, a>>), <<"le", result, b>>),
       err |-> ""]

\* random.Random.randrange(start, stop): a fresh integer within [start, stop)
RandomRandrange(start, stop, stack, k) ==
  LET result == IntSym(k)
  IN  [value |-> result,
       stack |-> GivenAdd(GivenAdd(stack, <<"ge", result, start>>), <<"lt", result, stop>>),
       err |-> ""]

\* random.Random.choice(seq): the item at a random index within [0, len(seq) - 1]
RandomChoice(seq, stack, k) ==
  LET zero == IntVal(0)
      one == IntVal(1)
  IN  IF ~IsProxy(seq)
      THEN [value |-> NoVal, stack |-> stack, err |-> "bad argument type for random.choice"]
      ELSE LET index == RandomRandint(zero, MSub(MLen(seq), one), stack, k)
           IN  [value |-> MGetItem(seq, index.value), stack |-> index.stack, err |-> ""]

\* random.Random.random(): a fresh float within [0.0, 1.0]
RandomRandom(stack, k) ==
  LET zero == FloatVal(0)
      one == FloatVal(1)
      result == FloatSym(k)
  IN  [value |-> result,
       stack |-> GivenAdd(GivenAdd(stack, <<"ge", result, zero>>), <<"le", result, one>>),
       err |-> ""]

\* eval_expr: a call goes to the registered handler with evaluated arguments
EvalExpr(node, stack, k) ==
  IF node[1] = "Call"
  THEN CASE node[2] = "random.Random.randint" ->
              RandomRandint(ExprValue(node[3], stack), ExprValue(node[4], stack), stack, k)
         [] node[2] = "random.Random.randrange" ->
              RandomRandrange(ExprValue(node[3], stack), ExprValue(node[4], stack), stack, k)
         [] node[2] = "random.Random.choice" ->
              RandomChoice(ExprValue(node[3], stack), stack, k)
         [] node[2] = "random.Random.random" ->
              RandomRandom(stack, k)
  ELSE [value |-> ExprValue(node, stack), stack |-> stack, err |-> ""]

\* ------------------------------------------------- base classes of a raise
\* the class definitions a name can be inferred to, with their base nodes
ClassBases ==
  [object |-> <<>>,
   BaseException |-> <<Name("object")>>,
   Exception |-> <<Name("BaseException")>>,
   ArithmeticError |-> <<Name("Exception")>>,
   ValueError |-> <<Name("Exception")>>,
   ZeroDivisionError |-> <<Name("ArithmeticError")>>,
   MyError |-> <<<<"Attribute", "errors", "Base">>, Name("ValueError")>>]

\* infer(node): the definitions a node can refer to
Infer(node) ==
  CASE node[1] = "Name" /\ node[2] \in DOMAIN ClassBases -> {<<"ClassDef", node[2]>>}
    [] node[1] = "Name" /\ node[2] = "Alias" -> {<<"ClassDef", "ZeroDivisionError">>}
    [] node[1] = "Name" /\ node[2] = "func" -> {<<"FuncDef", "func">>}
    [] node[1] = "CallExc" -> {<<"Instance", node[2]>>}
    [] OTHER -> {}

\* the names of the raised reference and its class, without the base classes
GetAllBasesDirect(node) ==
  UNION { LET def_node == IF d[1] = "Instance" THEN <<"ClassDef", d[2]>> ELSE d
          IN  (IF node[1] = "Name" THEN {node[2]} ELSE {})
              \cup (IF def_node[1] # "ClassDef" THEN {} ELSE {def_node[2]})
          : d \in Infer(node) }

RECURSIVE GetAllBases(_)
GetAllBases(node) ==
  UNION { LET def_node == IF d[1] = "Instance" THEN <<"ClassDef", d[2]>> ELSE d
              bases == ClassBases[def_node[2]]
          IN  (IF node[1] = "Name" THEN {node[2]} ELSE {})
              \cup (IF def_node[1] # "ClassDef" THEN {}
                    ELSE {def_node[2]} \cup
                         UNION { IF bases[k][1] = "Name" THEN GetAllBases(bases[k]) ELSE {}
                                 : k \in 1..Len(bases) })
          : d \in Infer(node) }

\* the names eval_raise collects from node.exc and node.cause
RaiseNames(node) ==
  UNION { IF exc = NoneNode THEN {} ELSE GetAllBases(exc) : exc \in {node[2], node[3]} }

\* ------------------------------------------------------------------- state
VARIABLES
  ctxs,   \* the Context statements are evaluated in: its chain of layers, root first
  ifs,    \* the eval_if_else calls in progress: test, test_ref, ctx_then, phase
  body,   \* the statements evaluated so far, one list per layer of ctxs
  calls,  \* the eval_func calls in progress, with what the caller resumes with
  trace,  \* ctx.trace: the names of the functions being evaluated
  err,    \* the error that aborted the evaluation, "" when none
  pc,     \* "start", "body", "done" or "failed"
  nstmt,  \* statements evaluated so far
  fresh,  \* random names handed out so far
  last    \* the node eval_stmt was last called on

vars == <<ctxs, ifs, body, calls, trace, err, pc, nstmt, fresh, last>>

\* Trace.guard(name): entering the guarded block lists the name
TraceEnter(tr, name) == tr \cup {name}
\* leaving the guarded block: test_trace finds the name of the inner block
\* still listed once that block is left
TraceExit(tr, name) == tr

\* Trace.guard(name) left by an error: the name is released
TraceExitError(tr, name) == tr \ {name}

\* an error leaves every guarded block on its way out
RECURSIVE TraceUnwind(_, _)
TraceUnwind(tr, cs) ==
  IF cs = <<>> THEN tr
  ELSE TraceUnwind(IF Top(cs).summary THEN tr ELSE TraceExitError(tr, Top(cs).name),
                   Front(cs))

Init ==
  /\ ctxs = <<RootLayer>>
  /\ ifs = <<>>
  /\ body = << <<>> >>
  /\ calls = <<>>
  /\ trace = {}
  /\ err = ""
  /\ pc = "start"
  /\ nstmt = 0
  /\ fresh = 0
  /\ last = <<"init">>

\* an UnsupportedError aborts the evaluation of the function; its Context is dropped
Fail(e, node) ==
  /\ err' = e
  /\ pc' = "failed"
  /\ trace' = TraceUnwind(trace, calls)
  /\ ctxs' = <<>> /\ ifs' = <<>> /\ body' = <<>> /\ calls' = <<>>
  /\ last' = <<"error", node>>
  /\ UNCHANGED <<nstmt, fresh>>

InBody == pc = "body" /\ err = "" /\ nstmt < MaxStmts /\ ~Top(calls).summary

\* the evaluated statement is added to the list of its block
Done(node) ==
  /\ body' = [body EXCEPT ![Len(body)] = Append(@, node)]
  /\ nstmt' = nstmt + 1
  /\ last' = node

Bound(node) == \A n \in NamesOf(node) : ScopeGet(ctxs, n) # NoVal

\* eval_assert recording the test alone, whatever came before it
EvalAssertNoInterrupt(node) ==
  /\ InBody
  /\ IF node[2] = NoneNode
     THEN Fail("assert without condition", node)
     ELSE /\ Bound(node[2])
          /\ ctxs' = SetTop(ctxs, [Top(ctxs) EXCEPT !.expected =
                                     Append(@, ExprValue(node[2], ctxs))])
          /\ Done(node)
          /\ UNCHANGED <<ifs, calls, trace, err, pc, fresh>>

\* eval_assert
EvalAssert(node) ==
  /\ InBody
  /\ IF node[2] = NoneNode
     THEN Fail("assert without condition", node)
     ELSE /\ Bound(node[2])
          /\ LET expr == ExprValue(node[2], ctxs)
                 ob == If(Interrupted(ctxs), True, expr)
             IN  ctxs' = SetTop(ctxs, [Top(ctxs) EXCEPT !.expected = Append(@, ob)])
          /\ Done(node)
          /\ UNCHANGED <<ifs, calls, trace, err, pc, fresh>>

\* eval_expr_stmt
EvalExprStmt(node) ==
  /\ InBody
  /\ Bound(node[2])
  /\ node[2][1] = "Call" => fresh < MaxFresh
  /\ LET r == EvalExpr(node[2], ctxs, fresh + 1) IN
     IF r.err # "" THEN Fail(r.err, node)
     ELSE /\ ctxs' = r.stack
          /\ fresh' = IF node[2][1] = "Call" THEN fresh + 1 ELSE fresh
          /\ Done(node)
          /\ UNCHANGED <<ifs, calls, trace, err, pc>>

\* eval_assign
EvalAssign(node) ==
  /\ InBody
  /\ LET targets == node[2] IN
     IF targets = <<>> THEN Fail("assignment to an empty target", node)
     ELSE IF Len(targets) > 1 THEN Fail("multiple assignment", node)
     ELSE IF targets[1][1] # "AssignName" THEN Fail("assignment target", node)
     ELSE /\ Bound(node[3])
          /\ node[3][1] = "Call" => fresh < MaxFresh
          /\ LET r == EvalExpr(node[3], ctxs, fresh + 1) IN
             IF r.err # "" THEN Fail(r.err, node)
             ELSE /\ ctxs' = ScopeSet(r.stack, targets[1][2], r.value)
                  /\ fresh' = IF node[3][1] = "Call" THEN fresh + 1 ELSE fresh
                  /\ Done(node)
                  /\ UNCHANGED <<ifs, calls, trace, err, pc>>

\* eval_return recording the return as unconditional
EvalReturnAlways(node) ==
  /\ InBody
  /\ Bound(node[2])
  /\ LET info == [value |-> ExprValue(node[2], ctxs), cond |-> True]
     IN  ctxs' = SetTop(ctxs, [Top(ctxs) EXCEPT !.returns = Append(@, info)])
  /\ Done(node)
  /\ UNCHANGED <<ifs, calls, trace, err, pc, fresh>>

\* eval_return
EvalReturn(node) ==
  /\ InBody
  /\ Bound(node[2])
  /\ LET info == [value |-> ExprValue(node[2], ctxs), cond |-> Not(Interrupted(ctxs))]
     IN  ctxs' = SetTop(ctxs, [Top(ctxs) EXCEPT !.returns = Append(@, info)])
  /\ Done(node)
  /\ UNCHANGED <<ifs, calls, trace, err, pc, fresh>>

\* eval_raise
EvalRaise(node) ==
  /\ InBody
  /\ LET info == [names |-> RaiseNames(node), cond |-> Not(Interrupted(ctxs))]
     IN  ctxs' = SetTop(ctxs, [Top(ctxs) EXCEPT !.exceptions = Append(@, info)])
  /\ Done(node)
  /\ UNCHANGED <<ifs, calls, trace, err, pc, fresh>>

\* eval_skip: import, pass, global
EvalSkip(node) ==
  /\ InBody
  /\ Done(node)
  /\ UNCHANGED <<ctxs, ifs, calls, trace, err, pc, fresh>>

\* ------------------------------------------------------------ eval_if_else
\* the test is evaluated and the then-branch gets a child Context
EvalIfBegin(test) ==
  /\ InBody
  /\ Len(ifs) < MaxDepth
  /\ IF test = NoneNode
     THEN Fail("If", <<"If">>)
     ELSE /\ Bound(test)
          /\ ifs' = Append(ifs, [test |-> test, test_ref |-> ExprValue(test, ctxs),
                                 ctx_then |-> <<>>, then_body |-> <<>>, phase |-> "then"])
          /\ ctxs' = MakeChild(ctxs)
          /\ body' = Append(body, <<>>)
          /\ nstmt' = nstmt + 1
          /\ last' = <<"If-begin", test>>
          /\ UNCHANGED <<calls, trace, err, pc, fresh>>

\* node.body is exhausted: the else-branch gets a child Context of its own
EvalIfElse ==
  /\ pc = "body" /\ err = ""
  /\ ifs # <<>> /\ Top(ifs).phase = "then"
  /\ ifs' = SetTop(ifs, [Top(ifs) EXCEPT !.ctx_then = <<Top(ctxs)>>,
                                         !.then_body = Top(body), !.phase = "else"])
  /\ ctxs' = MakeChild(Front(ctxs))
  /\ body' = Append(Front(body), <<>>)
  /\ last' = <<"If-else">>
  /\ UNCHANGED <<calls, trace, err, pc, nstmt, fresh>>

\* the changed names taken from the then-branch alone
ChangedVarsThenOnly(ctx_then, ctx_else) ==
  {v \in Vars : ctx_then.scope[v] # NoVal}

\* set(ctx_then.scope.layer) | set(ctx_else.scope.layer)
ChangedVars(ctx_then, ctx_else) ==
  {v \in Vars : ctx_then.scope[v] # NoVal \/ ctx_else.scope[v] # NoVal}

\* the changed names one of the children resolves no value for
UnboundVars(parent, ctx_then, ctx_else) ==
  {v \in ChangedVars(ctx_then, ctx_else) :
     \/ ScopeGet(Append(parent, ctx_then), v) = NoVal
     \/ ScopeGet(Append(parent, ctx_else), v) = NoVal}

\* the orders the loop over the set changed_vars can visit its names in
IterOrders(names) ==
  {ord \in [1..Cardinality(names) -> names] : {ord[k] : k \in 1..Len(ord)} = names}

\* the error the loop over changed_vars stops with at the name v, "" when none
VarError(parent, test_ref, ctx_then, ctx_else, v) ==
  IF v \in UnboundVars(parent, ctx_then, ctx_else) THEN "unbound variable"
  ELSE IF IfExpr(test_ref, ScopeGet(Append(parent, ctx_then), v),
                           ScopeGet(Append(parent, ctx_else), v)) = Mismatch
       THEN "if_expr of different variants"
  ELSE ""

\* the first error of the loop visiting the names in the order ord from ord[k]
RECURSIVE MergeError(_, _, _, _, _, _)
MergeError(parent, test_ref, ctx_then, ctx_else, ord, k) ==
  IF k > Len(ord) THEN ""
  ELSE IF VarError(parent, test_ref, ctx_then, ctx_else, ord[k]) # ""
       THEN VarError(parent, test_ref, ctx_then, ctx_else, ord[k])
  ELSE MergeError(parent, test_ref, ctx_then, ctx_else, ord, k + 1)

\* the loop of ctx.scope.set over the first n names of ord
RECURSIVE MergeScope(_, _, _, _, _, _)
MergeScope(parent, test_ref, ctx_then, ctx_else, ord, n) ==
  IF n = 0 THEN parent
  ELSE ScopeSet(MergeScope(parent, test_ref, ctx_then, ctx_else, ord, n - 1), ord[n],
                IfExpr(test_ref, ScopeGet(Append(parent, ctx_then), ord[n]),
                                 ScopeGet(Append(parent, ctx_else), ord[n])))

\* the else-branch folded under the guard of the then-branch
MergeExpectedSameGuard(test_ref, ctx_then, ctx_else) ==
  [k \in 1..Len(ctx_then.expected) |-> IfExpr(test_ref, ctx_then.expected[k], True)]
  \o [k \in 1..Len(ctx_else.expected) |-> IfExpr(test_ref, ctx_else.expected[k], True)]

\* the obligations of the else-branch taken over without their guard
MergeExpectedElseUnguarded(test_ref, ctx_then, ctx_else) ==
  [k \in 1..Len(ctx_then.expected) |-> IfExpr(test_ref, ctx_then.expected[k], True)]
  \o ctx_else.expected

MergeExpected(test_ref, ctx_then, ctx_else) ==
  [k \in 1..Len(ctx_then.expected) |-> IfExpr(test_ref, ctx_then.expected[k], True)]
  \o [k \in 1..Len(ctx_else.expected) |-> IfExpr(test_ref, True, ctx_else.expected[k])]

MergeExceptionsSameGuard(test_ref, ctx_then, ctx_else) ==
  [k \in 1..Len(ctx_then.exceptions) |->
     [names |-> ctx_then.exceptions[k].names,
      cond |-> IfExpr(test_ref, ctx_then.exceptions[k].cond, False)]]
  \o [k \in 1..Len(ctx_else.exceptions) |->
     [names |-> ctx_else.exceptions[k].names,
      cond |-> IfExpr(test_ref, ctx_else.exceptions[k].cond, False)]]

MergeExceptions(test_ref, ctx_then, ctx_else) ==
  [k \in 1..Len(ctx_then.exceptions) |->
     [names |-> ctx_then.exceptions[k].names,
      cond |-> IfExpr(test_ref, ctx_then.exceptions[k].cond, False)]]
  \o [k \in 1..Len(ctx_else.exceptions) |->
     [names |-> ctx_else.exceptions[k].names,
      cond |-> IfExpr(test_ref, False, ctx_else.exceptions[k].cond)]]

MergeReturnsSameGuard(test_ref, ctx_then, ctx_else) ==
  [k \in 1..Len(ctx_then.returns) |->
     [value |-> ctx_then.returns[k].value,
      cond |-> IfExpr(test_ref, ctx_then.returns[k].cond, False)]]
  \o [k \in 1..Len(ctx_else.returns) |->
     [value |-> ctx_else.returns[k].value,
      cond |-> IfExpr(test_ref, ctx_else.returns[k].cond, False)]]

MergeReturns(test_ref, ctx_then, ctx_else) ==
  [k \in 1..Len(ctx_then.returns) |->
     [value |-> ctx_then.returns[k].value,
      cond |-> IfExpr(test_ref, ctx_then.returns[k].cond, False)]]
  \o [k \in 1..Len(ctx_else.returns) |->
     [value |-> ctx_else.returns[k].value,
      cond |-> IfExpr(test_ref, False, ctx_else.returns[k].cond)]]

\* the parent Context after the two children are folded into its top layer,
\* the changed names visited in the order ord
MergeIf(parent, test_ref, ctx_then, ctx_else, ord) ==
  SetTop(parent,
    [scope |-> Top(MergeScope(parent, test_ref, ctx_then, ctx_else, ord, Len(ord))).scope,
     order |-> Top(MergeScope(parent, test_ref, ctx_then, ctx_else, ord, Len(ord))).order,
     given |-> Top(parent).given,
     expected |-> Top(parent).expected \o MergeExpected(test_ref, ctx_then, ctx_else),
     exceptions |-> Top(parent).exceptions \o MergeExceptions(test_ref, ctx_then, ctx_else),
     returns |-> Top(parent).returns \o MergeReturns(test_ref, ctx_then, ctx_else)])

\* node.orelse is exhausted: variables, assertions, exceptions and returns are merged
EvalIfMerge ==
  /\ pc = "body" /\ err = ""
  /\ ifs # <<>> /\ Top(ifs).phase = "else"
  /\ LET f == Top(ifs)
         parent == Front(ctxs)
         ctx_then == f.ctx_then[1]
         ctx_else == Top(ctxs)
     IN  \E ord \in IterOrders(ChangedVars(ctx_then, ctx_else)) :
           IF MergeError(parent, f.test_ref, ctx_then, ctx_else, ord, 1) # ""
           THEN Fail(MergeError(parent, f.test_ref, ctx_then, ctx_else, ord, 1), <<"If-merge">>)
           ELSE /\ ctxs' = MergeIf(parent, f.test_ref, ctx_then, ctx_else, ord)
                /\ ifs' = Front(ifs)
                /\ body' = [Front(body) EXCEPT ![Len(body) - 1] =
                              Append(@, <<"If", f.test, f.then_body, Top(body)>>)]
                /\ last' = <<"If-merge">>
                /\ UNCHANGED <<calls, trace, err, pc, nstmt, fresh>>

\* --------------------------------------------------------------- eval_func
\* ctx.scope.layer.values(): the values in the order the names were first set
LayerValues(layer) == [k \in 1..Len(layer.order) |-> layer.scope[layer.order[k]]]

\* the summary recorded like an ordinary return
SummaryNotInterrupted(node, fctx) ==
  [value |-> <<"app", node[2], LayerValues(Top(fctx))>>, cond |-> Not(Interrupted(fctx))]

\* the ReturnInfo that stands for a recursive call
Summary(node, fctx) ==
  [value |-> <<"app", node[2], LayerValues(Top(fctx))>>, cond |-> True]

\* eval_func on the FunctionDef node, with the Context fctx
EvalFunc(node, fctx) ==
  /\ err = ""
  /\ IF node[2] \in trace
     THEN IF node[3] = NoneNode
          THEN Fail("no return type annotation for", node)
          ELSE /\ ctxs' = SetTop(fctx, [Top(fctx) EXCEPT !.returns =
                                          Append(@, Summary(node, fctx))])
               /\ calls' = Append(calls, [name |-> node[2], summary |-> TRUE,
                                          ctxs |-> ctxs, ifs |-> ifs, body |-> body])
               /\ trace' = trace
               /\ ifs' = <<>> /\ body' = << <<>> >>
               /\ pc' = "body"
               /\ last' = node
               /\ UNCHANGED <<err, nstmt, fresh>>
     ELSE /\ trace' = TraceEnter(trace, node[2])
          /\ calls' = Append(calls, [name |-> node[2], summary |-> FALSE,
                                     ctxs |-> ctxs, ifs |-> ifs, body |-> body])
          /\ ctxs' = fctx
          /\ ifs' = <<>> /\ body' = << <<>> >>
          /\ pc' = "body"
          /\ last' = node
          /\ UNCHANGED <<err, nstmt, fresh>>

\* eval_func returns: the with-block of the guard is left
EvalFuncExit ==
  /\ pc = "body" /\ err = ""
  /\ ifs = <<>>
  /\ LET c == Top(calls) IN
     /\ trace' = IF c.summary THEN trace ELSE TraceExit(trace, c.name)
     /\ calls' = Front(calls)
     /\ last' = <<"FunctionDef-exit", c.name, c.summary>>
     /\ IF Len(calls) = 1
        THEN pc' = "done" /\ UNCHANGED <<ctxs, ifs, body>>
        ELSE pc' = "body" /\ ctxs' = c.ctxs /\ ifs' = c.ifs /\ body' = c.body
  /\ UNCHANGED <<err, nstmt, fresh>>

\* the driver evaluates the function under proof in the root Context
EvalFuncRoot(node) ==
  /\ pc = "start"
  /\ EvalFunc(node, ctxs)

\* the parameter names of the functions that are called
Params == <<"p", "q">>

\* the Context a call evaluates the callee in: the arguments, bound in order
RECURSIVE CallCtx(_)
CallCtx(args) ==
  IF args = <<>> THEN <<EmptyLayer>>
  ELSE ScopeSet(CallCtx(Front(args)), Params[Len(args)], args[Len(args)])

\* a call of a user function inside a body: eval_stmt on its FunctionDef
EvalCall(node, args) ==
  /\ InBody
  /\ Len(calls) < MaxCalls
  /\ EvalFunc(node, CallCtx(args))

\* ------------------------------------------- statements of a function body
Y12 == <<"BoolOp", "or", <<"Compare", "eq", Name("y"), Num(1)>>,
                         <<"Compare", "eq", Name("y"), Num(2)>>>>
YIn12 == <<"BoolOp", "and", <<"Compare", "ge", Name("y"), Num(1)>>,
                            <<"Compare", "le", Name("y"), Num(2)>>>>
YIn13 == <<"BoolOp", "and", <<"Compare", "ge", Name("y"), Num(1)>>,
                            <<"Compare", "lt", Name("y"), Num(3)>>>>
Randint12 == <<"Call", "random.Random.randint", Num(1), Num(2)>>
Randrange13 == <<"Call", "random.Random.randrange", Num(1), Num(3)>>
Choice12 == <<"Call", "random.Random.choice", <<"List", <<Num(1), Num(2)>>>>, NoneNode>>
ChoiceFunc == <<"Call", "random.Random.choice", <<"FuncRef", "len">>, NoneNode>>
RandomCall == <<"Call", "random.Random.random", NoneNode, NoneNode>>
AssignY(v) == <<"Assign", << <<"AssignName", "y">> >>, v>>
AssignZ(v) == <<"Assign", << <<"AssignName", "z">> >>, v>>
AssertFalse == <<"Assert", <<"Bool", FALSE>>>>
Return1 == <<"Return", Num(1)>>
Raise(e) == <<"Raise", Name(e), NoneNode>>
IntFunc(name) == <<"FunctionDef", name, Name("int")>>
RootFunc == IntFunc("f")

BadAssigns ==
  { <<"Assign", <<>>, Num(1)>>,
    <<"Assign", << <<"AssignName", "y">>, <<"AssignName", "z">> >>, Num(1)>>,
    <<"Assign", << <<"Subscript", "y">> >>, Num(1)>> }

\* a body of asserts, returns, raises and conditionals
IfTests == { Name("p"), Name("q"), NoneNode }

Next ==
  \/ \E node \in {RootFunc} : EvalFuncRoot(node)
  \/ \E node \in {AssertFalse, <<"Assert", NoneNode>>} : EvalAssert(node)
  \/ \E node \in {Return1} : EvalReturn(node)
  \/ \E node \in {Raise("ValueError")} : EvalRaise(node)
  \/ \E test \in IfTests : EvalIfBegin(test)
  \/ EvalIfElse
  \/ EvalIfMerge
  \/ EvalFuncExit

Spec == Init /\ [][Next]_vars

\* a body that also assigns variables and asserts on them
AssignNodes == { AssignY(Num(1)), AssignY(Num(2)), AssignZ(Num(1)) } \cup BadAssigns

NextAssign ==
  \/ \E node \in {RootFunc} : EvalFuncRoot(node)
  \/ \E node \in AssignNodes : EvalAssign(node)
  \/ \E node \in {<<"Assert", Y12>>} : EvalAssert(node)
  \/ \E node \in {Return1} : EvalReturn(node)
  \/ \E node \in {Raise("ValueError")} : EvalRaise(node)
  \/ \E test \in {Name("p"), <<"Bool", TRUE>>} : EvalIfBegin(test)
  \/ EvalIfElse
  \/ EvalIfMerge
  \/ EvalFuncExit

SpecAssign == Init /\ [][NextAssign]_vars

\* a body with conditionals on the constant true, whose branches assign,
\* assert False, return and raise
NextConst ==
  \/ \E node \in {RootFunc} : EvalFuncRoot(node)
  \/ \E node \in {AssignY(Num(1)), AssignY(Num(2))} : EvalAssign(node)
  \/ \E node \in {AssertFalse} : EvalAssert(node)
  \/ \E node \in {Return1} : EvalReturn(node)
  \/ \E node \in {Raise("ValueError")} : EvalRaise(node)
  \/ \E test \in {<<"Bool", TRUE>>, Name("p")} : EvalIfBegin(test)
  \/ EvalIfElse
  \/ EvalIfMerge
  \/ EvalFuncExit

SpecConst == Init /\ [][NextConst]_vars

\* a body that calls the random built-ins
RandomCalls == {Randint12, Randrange13, Choice12, ChoiceFunc, RandomCall}

NextRandom ==
  \/ \E node \in {RootFunc} : EvalFuncRoot(node)
  \/ \E node \in {AssignY(e) : e \in RandomCalls \cup {Num(2)}} : EvalAssign(node)
  \/ \E node \in {<<"Expr", e>> : e \in RandomCalls \cup {Num(1)}} : EvalExprStmt(node)
  \/ \E node \in {<<"Assert", YIn12>>, <<"Assert", YIn13>>} : EvalAssert(node)
  \/ \E test \in {Name("p")} : EvalIfBegin(test)
  \/ EvalIfElse
  \/ EvalIfMerge
  \/ EvalFuncExit

SpecRandom == Init /\ [][NextRandom]_vars

\* a body of raise statements over every shape of raised expression
ExcNodes ==
  { Name(e) : e \in {"ValueError", "ZeroDivisionError", "MyError", "Alias", "func", "unknown"} }
  \cup { <<"CallExc", "ValueError">> }
AllRaiseNodes == { <<"Raise", exc, cause>> : exc \in ExcNodes, cause \in ExcNodes \cup {NoneNode} }

NextRaise ==
  \/ \E node \in {RootFunc} : EvalFuncRoot(node)
  \/ \E node \in AllRaiseNodes : nstmt < MaxRaises /\ EvalRaise(node)
  \/ EvalFuncExit

SpecRaise == Init /\ [][NextRaise]_vars

\* bodies of functions that call each other
FuncNodes == { IntFunc("f"), IntFunc("g"), <<"FunctionDef", "h", NoneNode>> }
ArgLists == { <<>>, <<IntVal(1)>>, <<BoolSym("p"), IntVal(2)>> }

NextFunc ==
  \/ \E node \in FuncNodes : EvalFuncRoot(node)
  \/ \E node \in FuncNodes, args \in ArgLists : EvalCall(node, args)
  \/ \E node \in {Return1} : EvalReturn(node)
  \/ \E node \in BadAssigns : EvalAssign(node)
  \/ \E node \in {<<"Pass">>} : EvalSkip(node)
  \/ EvalFuncExit

SpecFunc == Init /\ [][NextFunc]_vars

\* ------------------------------------------- the subject language, run concretely
\* The body is run under one interpretation of the arguments. A statement is
\* live when every enclosing test selects its branch; it acts when it is live
\* and no return or raise was reached before it. Statements of each kind are
\* numbered in the order of the text.
RECURSIVE ConcExpr(_, _, _)
ConcExpr(node, env, store) ==
  CASE node[1] = "Num" -> node[2]
    [] node[1] = "Bool" -> node[2]
    [] node[1] = "Name" -> IF node[2] \in BoolSyms THEN env.b[node[2]] ELSE store[node[2]]
    [] node[1] = "Compare" /\ node[2] = "eq" ->
         ConcExpr(node[3], env, store) = ConcExpr(node[4], env, store)
    [] node[1] = "Compare" /\ node[2] = "ge" ->
         ConcExpr(node[3], env, store) >= ConcExpr(node[4], env, store)
    [] node[1] = "Compare" /\ node[2] = "le" ->
         ConcExpr(node[3], env, store) <= ConcExpr(node[4], env, store)
    [] node[1] = "Compare" /\ node[2] = "lt" ->
         ConcExpr(node[3], env, store) < ConcExpr(node[4], env, store)
    [] node[1] = "BoolOp" /\ node[2] = "or" ->
         ConcExpr(node[3], env, store) \/ ConcExpr(node[4], env, store)
    [] node[1] = "BoolOp" /\ node[2] = "and" ->
         ConcExpr(node[3], env, store) /\ ConcExpr(node[4], env, store)

RunInit ==
  [out |-> <<"none", 0>>, nret |-> 0, nexc |-> 0, nassert |-> 0,
   failed |-> {}, liveRet |-> {}, liveExc |-> {}, liveAssert |-> {},
   store |-> [v \in {"y", "z"} |-> -1]]

RECURSIVE RunSeq(_, _, _, _, _)
RunStmt(node, env, st, live) ==
  LET acts == live /\ st.out[1] = "none" IN
  CASE node[1] = "Assert" ->
         [st EXCEPT !.nassert = @ + 1,
                    !.liveAssert = IF live THEN @ \cup {st.nassert + 1} ELSE @,
                    !.failed = IF acts /\ ~ConcExpr(node[2], env, st.store)
                               THEN @ \cup {st.nassert + 1} ELSE @]
    [] node[1] = "Return" ->
         [st EXCEPT !.nret = @ + 1,
                    !.liveRet = IF live THEN @ \cup {st.nret + 1} ELSE @,
                    !.out = IF acts THEN <<"return", st.nret + 1>> ELSE @]
    [] node[1] = "Raise" ->
         [st EXCEPT !.nexc = @ + 1,
                    !.liveExc = IF live THEN @ \cup {st.nexc + 1} ELSE @,
                    !.out = IF acts THEN <<"raise", st.nexc + 1>> ELSE @]
    [] node[1] = "Assign" ->
         IF acts THEN [st EXCEPT !.store[node[2][1][2]] = ConcExpr(node[3], env, st.store)]
         ELSE st
    [] node[1] = "If" ->
         LET c == ConcExpr(node[2], env, st.store)
             st1 == RunSeq(node[3], 1, env, st, live /\ c)
         IN  RunSeq(node[4], 1, env, st1, live /\ ~c)
    [] OTHER -> st

RunSeq(stmts, k, env, st, live) ==
  IF k > Len(stmts) THEN st
  ELSE RunSeq(stmts, k + 1, env, RunStmt(stmts[k], env, st, live), live)

Run(stmts, env) == RunSeq(stmts, 1, env, RunInit, TRUE)

\* the indices of the recorded conditions that hold under env
HoldingConds(items, env) == {k \in 1..Len(items) : Eval(items[k].cond, env)}
FailingAsserts(items, env) == {k \in 1..Len(items) : ~Eval(items[k], env)}

\* every conditional of the body is merged: the root layer holds the results
Merged == pc \in {"body", "done"} /\ ifs = <<>> /\ Len(calls) <= 1

\* a return or raise was evaluated earlier in the block or an enclosing block
HasInterrupt(stmts, upto) ==
  \E k \in 1..upto : stmts[k][1] \in {"Return", "Raise"}
InterruptedPath(b) ==
  \E j \in 1..Len(b) : HasInterrupt(b[j], Len(b[j]))

AllTrue(items, env) == \A k \in 1..Len(items) : Eval(items[k], env)

\* the solver's verdict on a Context: expected follows from given, and no
\* exception outside the allowed names can escape
Prove(stack, allowed) ==
  IF \A env \in Envs(fresh) :
       AllTrue(AllOf(stack, "given"), env) =>
         /\ AllTrue(AllOf(stack, "expected"), env)
         /\ \A k \in 1..Len(AllOf(stack, "exceptions")) :
              AllOf(stack, "exceptions")[k].names \cap allowed = {} =>
                ~Eval(AllOf(stack, "exceptions")[k].cond, env)
  THEN "OK" ELSE "FAIL"

\* ------------------------------------------------------------------ claims

\* C1: an assert adds If(interrupted, true, test) to the top layer of expected,
\* with interrupted as it is when the assert is evaluated; the obligation holds
\* wherever the path is interrupted, and after a return or raise evaluated
\* earlier on the path it holds under every interpretation, so an
\* interpretation that satisfied expected before the assert still satisfies it.
C1_AssertObligation ==
  (pc = "body" /\ last[1] = "Assert") =>
    LET ob == Top(ctxs).expected[Len(Top(ctxs).expected)]
        all == AllOf(ctxs, "expected")
        intr == Interrupted(ctxs)
    IN  /\ ob = If(intr, True, ExprValue(last[2], ctxs))
        /\ \A env \in Envs(fresh) :
             /\ Eval(intr, env) => Eval(ob, env)
             /\ ~Eval(intr, env) => (Eval(ob, env) <=> Eval(ExprValue(last[2], ctxs), env))
             /\ InterruptedPath([body EXCEPT ![Len(body)] = SubSeq(@, 1, Len(@) - 1)]) =>
                  /\ Eval(ob, env)
                  /\ AllTrue(SubSeq(all, 1, Len(all) - 1), env) => AllTrue(all, env)

\* an assert False evaluated after a return or raise of the same path
C1_Witness ==
  /\ pc = "body" /\ last = AssertFalse
  /\ InterruptedPath([body EXCEPT ![Len(body)] = SubSeq(@, 1, Len(@) - 1)])
  /\ \E env \in Envs(fresh) : AllTrue(AllOf(ctxs, "expected"), env)

\* C2: a return appends exactly one ReturnInfo and a raise exactly one
\* ExceptionInfo to the top layer, with the condition Not(interrupted) of the
\* moment; the condition is false wherever the path was already interrupted,
\* and false everywhere after an earlier return or raise of the same path.
C2_ReturnRaiseCond ==
  [][(pc' = "body" /\ last'[1] \in {"Return", "Raise"}) =>
       LET reg == IF last'[1] = "Return" THEN "returns" ELSE "exceptions"
           other == IF last'[1] = "Return" THEN "exceptions" ELSE "returns"
           cond == Not(Interrupted(ctxs))
       IN  /\ Len(ctxs') = Len(ctxs)
           /\ Front(ctxs') = Front(ctxs)
           /\ Len(Top(ctxs')[reg]) = Len(Top(ctxs)[reg]) + 1
           /\ SubSeq(Top(ctxs')[reg], 1, Len(Top(ctxs)[reg])) = Top(ctxs)[reg]
           /\ Top(ctxs')[reg][Len(Top(ctxs')[reg])].cond = cond
           /\ Top(ctxs')[other] = Top(ctxs)[other]
           /\ Top(ctxs').expected = Top(ctxs).expected
           /\ last'[1] = "Raise" =>
                Top(ctxs').exceptions[Len(Top(ctxs').exceptions)].names = RaiseNames(last')
           /\ \A env \in Envs(fresh) :
                /\ Eval(Interrupted(ctxs), env) => ~Eval(cond, env)
                /\ InterruptedPath(body) => ~Eval(cond, env)
    ]_vars

\* a return or raise evaluated after an earlier one of the same block
C2_Witness ==
  /\ pc = "body" /\ last[1] \in {"Return", "Raise"}
  /\ Len(ctxs) > 1
  /\ InterruptedPath([body EXCEPT ![Len(body)] = SubSeq(@, 1, Len(@) - 1)])

\* C9: once every conditional is merged, the root layer holds one obligation
\* per assert, one ExceptionInfo per raise and one ReturnInfo per return of the
\* body, in the order of the text, whatever the nesting; and under every
\* interpretation an exception or return condition holds, or an obligation
\* fails, only for a statement every enclosing test selects.
C9_NestedMerge ==
  Merged =>
    \A env \in Envs(fresh) :
      LET r == Run(body[1], env)
          root == ctxs[1]
      IN  /\ Len(ctxs) = 1
          /\ Len(root.returns) = r.nret
          /\ Len(root.exceptions) = r.nexc
          /\ Len(root.expected) = r.nassert
          /\ HoldingConds(root.returns, env) \subseteq r.liveRet
          /\ HoldingConds(root.exceptions, env) \subseteq r.liveExc
          /\ FailingAsserts(root.expected, env) \subseteq r.liveAssert
          /\ FailingAsserts(root.expected, env) = r.failed

NestedIn(stmts, kind) ==
  \E i \in 1..Len(stmts) :
    /\ stmts[i][1] = "If"
    /\ \E b \in {3, 4} : \E j \in 1..Len(stmts[i][b]) :
         /\ stmts[i][b][j][1] = "If"
         /\ \E c \in {3, 4} : \E k \in 1..Len(stmts[i][b][j][c]) :
              stmts[i][b][j][c][k][1] = kind

\* a return recorded two conditionals deep, merged into the root layer, whose
\* condition holds under one interpretation and not under another
C9_Witness ==
  /\ Merged
  /\ NestedIn(body[1], "Return")
  /\ \E e1, e2 \in Envs(fresh) :
       /\ HoldingConds(ctxs[1].returns, e1) # {}
       /\ HoldingConds(ctxs[1].returns, e2) = {}

\* C10: once every conditional is merged, under every interpretation of the
\* tests at most one of the recorded return and exception conditions holds:
\* that of the first return or raise the run reaches, none when it reaches none.
C10_ExclusiveConds ==
  Merged =>
    \A env \in Envs(fresh) :
      LET r == Run(body[1], env)
          rets == HoldingConds(ctxs[1].returns, env)
          excs == HoldingConds(ctxs[1].exceptions, env)
      IN  /\ Cardinality(rets) + Cardinality(excs) <= 1
          /\ rets = IF r.out[1] = "return" THEN {r.out[2]} ELSE {}
          /\ excs = IF r.out[1] = "raise" THEN {r.out[2]} ELSE {}

\* a return and a raise in the branches of a nested conditional: one
\* interpretation reaches the return, another the raise, a third neither
C10_Witness ==
  /\ Merged
  /\ NestedIn(body[1], "Return") /\ NestedIn(body[1], "Raise")
  /\ \E e1, e2, e3 \in Envs(fresh) :
       /\ HoldingConds(ctxs[1].returns, e1) # {}
       /\ HoldingConds(ctxs[1].exceptions, e2) # {}
       /\ HoldingConds(ctxs[1].returns, e3) \cup HoldingConds(ctxs[1].exceptions, e3) = {}

\* the names a block assigns, in nested conditionals too
RECURSIVE AssignedIn(_)
AssignedIn(stmts) ==
  UNION { IF stmts[k][1] = "Assign" THEN {stmts[k][2][1][2]}
          ELSE IF stmts[k][1] = "If" THEN AssignedIn(stmts[k][3]) \cup AssignedIn(stmts[k][4])
          ELSE {}
          : k \in 1..Len(stmts) }

ScenarioC ==
  << <<"If", Name("p"), <<AssignY(Num(1))>>, <<AssignY(Num(2))>>>>, <<"Assert", Y12>> >>

\* C5: the merge of a conditional binds, in the parent, every name a branch
\* assigns to if_expr(test, then_value, else_value) of the values the children
\* resolve, and leaves the other names as they were; it fails with 'unbound
\* variable' exactly when a child resolves no value for such a name. After the
\* merges a bound variable has, under every interpretation, the value the run
\* gives it, and `if p: y = 1 else: y = 2; assert y == 1 or y == 2` is proved.
C5_MergeStep ==
  (last' \in {<<"If-merge">>, <<"error", <<"If-merge">>>>}) =>
    LET f == Top(ifs)
        parent == Front(ctxs)
        in_then == Append(parent, f.ctx_then[1])
        in_else == ctxs
        assigned == AssignedIn(f.then_body) \cup AssignedIn(Top(body))
    IN  IF \E v \in assigned : ScopeGet(in_then, v) = NoVal \/ ScopeGet(in_else, v) = NoVal
        THEN err' = "unbound variable"
        ELSE /\ err' = ""
             /\ Len(ctxs') = Len(parent)
             /\ Front(ctxs') = Front(parent)
             /\ \A v \in Vars :
                  Top(ctxs').scope[v] =
                    IF v \in assigned
                    THEN IfExpr(f.test_ref, ScopeGet(in_then, v), ScopeGet(in_else, v))
                    ELSE Top(parent).scope[v]

C5_MergedValues ==
  /\ Merged =>
       \A env \in Envs(fresh) :
         LET r == Run(body[1], env) IN
         r.out[1] = "none" =>
           \A v \in {"y", "z"} :
             IF ScopeGet(ctxs, v) = NoVal THEN r.store[v] = -1
             ELSE Eval(ScopeGet(ctxs, v), env) = r.store[v]
  /\ (Merged /\ body[1] = ScenarioC) => Prove(ctxs, {}) = "OK"

\* C5: every merge step binds the assigned names as stated, and the merged
\* values agree with the run
C5_IfMerge == [][C5_MergeStep]_vars /\ []C5_MergedValues

\* the conditional of scenario C is merged and the assert after it evaluated
C5_Witness ==
  /\ Merged /\ body[1] = ScenarioC
  /\ ctxs[1].scope["y"] = IfExpr(BoolSym("p"), IntVal(1), IntVal(2))
  /\ \E e1, e2 \in Envs(fresh) :
       Eval(ctxs[1].scope["y"], e1) = 1 /\ Eval(ctxs[1].scope["y"], e2) = 2

\* C6: when the test of a conditional is the constant true, after the merge
\* every changed variable has the value of the then-branch, every obligation
\* merged from the else-branch holds, and every exception and return merged
\* from the else-branch has a condition that holds under no interpretation.
C6_MergeStep ==
  (last' = <<"If-merge">> /\ Top(ifs).test = <<"Bool", TRUE>>) =>
    LET f == Top(ifs)
        parent == Front(ctxs)
        ctx_then == f.ctx_then[1]
        ctx_else == Top(ctxs)
        new == Top(ctxs')
        tail(reg, n) == SubSeq(new[reg], Len(new[reg]) - n + 1, Len(new[reg]))
    IN  /\ Len(new.expected) =
             Len(Top(parent).expected) + Len(ctx_then.expected) + Len(ctx_else.expected)
        /\ Len(new.exceptions) =
             Len(Top(parent).exceptions) + Len(ctx_then.exceptions) + Len(ctx_else.exceptions)
        /\ Len(new.returns) =
             Len(Top(parent).returns) + Len(ctx_then.returns) + Len(ctx_else.returns)
        /\ \A env \in Envs(fresh) :
             /\ \A v \in AssignedIn(f.then_body) \cup AssignedIn(Top(body)) :
                  Eval(new.scope[v], env) = Eval(ScopeGet(Append(parent, ctx_then), v), env)
             /\ AllTrue(tail("expected", Len(ctx_else.expected)), env)
             /\ HoldingConds(tail("exceptions", Len(ctx_else.exceptions)), env) = {}
             /\ HoldingConds(tail("returns", Len(ctx_else.returns)), env) = {}

\* C6: every merge under a constant-true test keeps the then-branch and makes
\* the else-branch vacuous
C6_ConstantTrueTest == [][C6_MergeStep]_vars

\* a conditional on the constant true is merged whose else-branch assigns a
\* variable to another value than the then-branch and asserts False where no
\* return or raise came before: the merged obligation holds all the same
C6_Witness ==
  /\ pc = "body" /\ last = <<"If-merge">>
  /\ LET node == Top(body)[Len(Top(body))]
         expected == Top(ctxs).expected
     IN
     /\ node[2] = <<"Bool", TRUE>>
     /\ node[3] = <<AssignY(Num(1))>>
     /\ {node[4][k] : k \in 1..Len(node[4])} = {AssignY(Num(2)), AssertFalse}
     /\ expected # <<>>
     /\ expected[Len(expected)] = IfExpr(True, True, If(Or(<<False>>), True, False))
     /\ \A env \in Envs(fresh) : Eval(ScopeGet(ctxs, "y"), env) = 1

\* C7: the ExceptionInfo of a raise names the raised class, the class of the
\* cause, and every base class reached from them through bases that are names;
\* so `raise ValueError` is proved against raises(ValueError) and fails against
\* raises(ZeroDivisionError), and `raise ZeroDivisionError` fails against
\* raises(ValueError).
C7_RaiseNames ==
  (pc = "body" /\ last[1] = "Raise") =>
    LET names == Top(ctxs).exceptions[Len(Top(ctxs).exceptions)].names
        raised == {last[2], last[3]} \ {NoneNode}
        class(e) == IF e[1] = "CallExc" THEN e[2]
                    ELSE IF e[2] = "Alias" THEN "ZeroDivisionError" ELSE e[2]
    IN  /\ \A e \in raised : class(e) \in DOMAIN ClassBases => class(e) \in names
        /\ \A c \in names \cap DOMAIN ClassBases :
             \A k \in 1..Len(ClassBases[c]) :
               ClassBases[c][k][1] = "Name" => ClassBases[c][k][2] \in names
        /\ "Base" \notin names
        /\ body[1] = <<Raise("ValueError")>> =>
             /\ names = {"ValueError", "Exception", "BaseException", "object"}
             /\ Prove(ctxs, {"ValueError"}) = "OK"
             /\ Prove(ctxs, {"ZeroDivisionError"}) = "FAIL"
        /\ body[1] = <<Raise("ZeroDivisionError")>> =>
             /\ Prove(ctxs, {"ValueError"}) = "FAIL"
             /\ Prove(ctxs, {"ArithmeticError"}) = "OK"

\* `raise MyError from Alias`: a class with a base that is no name, and a
\* cause that is another name of ZeroDivisionError
C7_Witness ==
  /\ pc = "body" /\ last = <<"Raise", Name("MyError"), Name("Alias")>>
  /\ Top(ctxs).exceptions[1].names =
       {"MyError", "ValueError", "Alias", "ZeroDivisionError", "ArithmeticError",
        "Exception", "BaseException", "object"}

\* every assert on y directly follows the random call that bounds y
RECURSIVE RandomProved(_)
RandomProved(stmts) ==
  \A k \in 1..Len(stmts) :
    /\ stmts[k] = <<"Assert", YIn12>> => (k > 1 /\ stmts[k - 1] = AssignY(Randint12))
    /\ stmts[k] = <<"Assert", YIn13>> => (k > 1 /\ stmts[k - 1] = AssignY(Randrange13))
    /\ stmts[k][1] = "If" => (RandomProved(stmts[k][3]) /\ RandomProved(stmts[k][4]))

\* C8: randint(a, b) binds a fresh integer symbol and adds result >= a and
\* result <= b to given (randrange: result >= start and result < stop); and a
\* body in which every `assert 1 <= y <= 2` directly follows
\* `y = randint(1, 2)`, and every `assert 1 <= y < 3` directly follows
\* `y = randrange(1, 3)`, is proved.
C8_AssertAfterRandomProved ==
  /\ (pc = "body" /\ last \in {AssignY(Randint12), AssignY(Randrange13)}) =>
       LET given == Top(ctxs).given
           result == IntSym(fresh)
       IN  /\ Top(ctxs).scope["y"] = result
           /\ Len(given) >= 2
           /\ given[Len(given) - 1] = <<"ge", result, IntVal(1)>>
           /\ given[Len(given)] = IF last = AssignY(Randint12)
                                  THEN <<"le", result, IntVal(2)>>
                                  ELSE <<"lt", result, IntVal(3)>>
  /\ (pc = "done" /\ RandomProved(body[1])) => Prove(ctxs, {}) = "OK"

\* C3: the trace holds exactly the names of the functions whose guarded body
\* is being evaluated, at every depth of calls; a name leaves the trace when
\* its body is finished, and no name is left once the evaluation has finished
\* or was aborted by an error.
C3_TraceGuard ==
  /\ trace = {calls[k].name : k \in {j \in 1..Len(calls) : ~calls[j].summary}}
  /\ \A j, k \in 1..Len(calls) :
       (j # k /\ ~calls[j].summary /\ ~calls[k].summary) => calls[j].name # calls[k].name
  /\ (last[1] = "FunctionDef-exit" /\ ~last[3]) => last[2] \notin trace
  /\ pc \in {"start", "done", "failed"} => trace = {}

\* C4: function entry for a name already in the trace evaluates no statement
\* of the body: it adds one ReturnInfo to the Context it was given, with the
\* condition true and the function symbol applied to the values of the scope
\* layer, or fails as unsupported when the function has no return annotation;
\* so a name is never entered twice and the depth of calls is bounded.
C4_EntryStep ==
  /\ (last'[1] = "FunctionDef" /\ last'[2] \in trace) =>
       LET layer == ctxs'[1]
           bound == {v \in Vars : layer.scope[v] # NoVal}
           info == layer.returns[1]
       IN  /\ last'[3] # NoneNode
           /\ Top(calls').summary /\ trace' = trace /\ nstmt' = nstmt
           /\ Len(ctxs') = 1 /\ Len(layer.returns) = 1
           /\ info.cond = True
           /\ info.value[1] = "app" /\ info.value[2] = last'[2]
           /\ Len(info.value[3]) = Cardinality(bound)
           /\ {info.value[3][k] : k \in 1..Len(info.value[3])} = {layer.scope[v] : v \in bound}
           /\ \A k \in 1..Len(info.value[3]) : info.value[3][k] = layer.scope[layer.order[k]]
           /\ layer.expected = <<>> /\ layer.exceptions = <<>> /\ layer.given = <<>>
  /\ (last'[1] = "error" /\ last'[2][1] = "FunctionDef") =>
       /\ last'[2][2] \in trace /\ last'[2][3] = NoneNode
       /\ err' = "no return type annotation for"
  /\ (pc = "body" /\ Top(calls).summary) =>
       /\ body = << <<>> >>
       /\ last'[1] = "FunctionDef-exit"
       /\ ctxs' = Top(calls).ctxs /\ body' = Top(calls).body /\ trace' = trace

\* C4: every recursive entry is summarised, and the depth of calls is bounded
C4_RecursionSummary ==
  [][C4_EntryStep]_vars /\ [](Len(calls) <= Cardinality(FuncNodes) + 1)

\* f calls g and g calls f(p, 2): the inner f is summarised
C4_Witness ==
  /\ pc = "body" /\ Len(calls) = 3
  /\ calls[1].name = "f" /\ calls[2].name = "g"
  /\ calls[3].name = "f" /\ calls[3].summary
  /\ ctxs[1].returns =
       << [value |-> <<"app", "f", <<BoolSym("p"), IntVal(2)>>>>, cond |-> True] >>

====
